---- MODULE Spec2Model ----
(***************************************************************************)
(* Model of deploy/deploy.sh of Insight360.                                *)
(*                                                                         *)
(* The file holds two scripts one after the other.  Lines 1-239 are the    *)
(* first variant; its last line calls main.  bash reads on after that call *)
(* returns: line 241 is a comment, lines 246-535 redefine every function   *)
(* and line 537 calls main again.  One invocation of the file therefore    *)
(* runs the first variant and, if its main returns, the second variant.    *)
(* The variable  variant  says which half is executing.                    *)
(*                                                                         *)
(* Shell semantics the model relies on (both halves run under "set -e"     *)
(* without "set -E"):                                                      *)
(*  - a command that fails inside a function called from main ends the     *)
(*    process at once; the ERR trap is not inherited by functions, so      *)
(*    rollback does not run for it;                                        *)
(*  - "exit 1" ends the process without firing the ERR trap;               *)
(*  - a command tested by "if" does not fire the ERR trap;                 *)
(*  - a command that fails in the body of main itself, with the trap set,  *)
(*    fires the trap (rollback) and the process then ends non-zero.        *)
(*                                                                         *)
(* External commands (docker, docker-compose, curl, mongodump, xargs) are  *)
(* the environment: each action draws their outcome from a small set.      *)
(* Writes to the log file and the "logs"/"ps" display commands are taken   *)
(* to succeed.  Every non-zero exit status is recorded as ExitFailure.     *)
(***************************************************************************)
EXTENDS Integers, Sequences, FiniteSets

\* ------------------------------------------------------------------ bounds
\* Greatest number of backup records left by earlier invocations.
MaxOldBackups == 6

\* ------------------------------------------------------- program constants
Services == {"mongodb", "backend", "frontend"}

RequiredVars ==
    {"MONGO_ROOT_USERNAME", "MONGO_ROOT_PASSWORD", "JWT_SECRET",
     "REACT_APP_NEWS_API_KEY", "DOCKER_HUB_USERNAME"}

\* order of the required_vars array
required_vars ==
    <<"MONGO_ROOT_USERNAME", "MONGO_ROOT_PASSWORD", "JWT_SECRET",
      "REACT_APP_NEWS_API_KEY", "DOCKER_HUB_USERNAME">>

\* local max_attempts of the two polling loops
max_attempts_v1 == 30
max_attempts_v2 == 40

max_attempts(v) == IF v = 1 THEN max_attempts_v1 ELSE max_attempts_v2

\* the services the second loop expects ("expecting 3")
ExpectedServices == 3

\* "keep last 5" of the backup clean-up
KeepBackups == 5

NoExit == -1
ExitSuccess == 0
ExitFailure == 1

\* values of the environment the model enumerates
ImageTagInputs == {"", "sha1"}
PrevTag == "sha0"
HealthStatus == {"none", "starting", "healthy", "unhealthy"}
HostCompose == {"standalone", "plugin", "apt", "missing"}

VARIABLES
    pc,              \* position in the script
    variant,         \* 1: lines 1-239 executing, 2: lines 241-537
    exitCode,        \* NoExit while the process runs
    failure,         \* the point at which the invocation failed, or "none"
    env,             \* required variables that are set and non-empty
    IMAGE_TAG,       \* the optional release tag, "" when not supplied
    hostCompose,     \* which Docker Compose the host offers
    DOCKER_COMPOSE_CMD,
    errTrap,         \* TRUE once "trap 'rollback' ERR" is in force
    prev,            \* the containers running when the invocation began
    containers,      \* service -> tag of its running container, or "none"
    images,          \* tags of the application images present on the host
    pkgInstalled,    \* docker-compose-plugin was installed by this run
    backupDir,       \* ./backups exists
    backups,         \* timestamps of the backup records
    newBackups,      \* records written by this invocation
    pruned,          \* records removed by this invocation
    dump,            \* outcome of the dump of the backup stage that has
                     \* just ended, "none" when there was no dump
    health,          \* status table the current pass of the loop works on
    attempt,         \* local attempt of the polling loop
    polls,           \* status queries made by the current loop
    sleeps,          \* sleeps made by the current loop
    loopResult,      \* variant -> "none" | "AllHealthy" | "TimedOut"
    hcResult,        \* variant -> "none" | "pass" | "fail"
    probes,          \* probes executed by the latest health_check, in order
    healthChecks,    \* number of health_check calls of this invocation
    rollbacks,       \* number of rollback runs of this invocation
    actions,         \* container lifecycle commands issued, in order
    diag,            \* diagnostic captures made
    log,             \* records appended to deploy.log (coarse)
    run,             \* 1: first invocation, 2: the script is run again
    first,           \* how the first invocation ended, once it is over
    world,           \* how the host behaves when its behaviour is fixed
    other,           \* position of a concurrent invocation, or "absent"
    server,          \* the backend process (server.js)
    pipeline,        \* a run of the CI/CD workflow
    manual,          \* a run of manual-deploy.sh
    news             \* the NewsList component

vars ==
    <<pc, variant, exitCode, failure, env, IMAGE_TAG, hostCompose,
      DOCKER_COMPOSE_CMD, errTrap, prev, containers, images, pkgInstalled,
      backupDir, backups, newBackups, pruned, dump, health, attempt, polls,
      sleeps, loopResult, hcResult, probes, healthChecks, rollbacks, actions,
      diag, log, run, first, world, other, server, pipeline, manual, news>>

\* groups used by UNCHANGED; no step of an invocation changes hostVars
hostVars ==
    <<env, IMAGE_TAG, hostCompose, prev, run, first, world, other, server,
      pipeline, manual, news>>
backupVars == <<backupDir, backups, newBackups, pruned, dump>>
loopVars == <<health, attempt, polls, sleeps>>
verifyVars == <<hcResult, probes, healthChecks>>

\* --------------------------------------------------------------- helpers
\* a container: the tag of its image and the main that started it
\* (0: an earlier invocation, 1 or 2: the variant of this invocation)
NoContainer == [tag |-> "none", by |-> 0]

NoContainers == [s \in Services |-> NoContainer]

NoHealth == [s \in Services |-> "none"]

\* image of a service in docker-compose.prod.yml at release tag t
ServiceTag(s, t) == IF s = "mongodb" THEN "7-jammy" ELSE t

Release(t, v) == [s \in Services |-> [tag |-> ServiceTag(s, t), by |-> v]]

\* a test that never finds a container
Running_none(c) == {}

\* docker-compose ps -q: the services that have a container
Running(c) == {s \in Services : c[s].tag # "none"}

\* the containers of c restricted to the services in keep
Keep(c, keep) == [s \in Services |-> IF s \in keep THEN c[s] ELSE NoContainer]

AppImages == {"backend", "frontend"}

ReleaseImages(t) == {<<i, t>> : i \in AppImages}

\* a script that forgets the supplied tag
image_tag_latest(tag) == "latest"

\* local image_tag=${IMAGE_TAG:-latest}
image_tag(tag) == IF tag = "" THEN "latest" ELSE tag

\* grep -c "(healthy)" over the status table
healthy_count(h) == Cardinality({s \in Services : h[s] = "healthy"})

\* grep -c "insight360-" over the name table
total_services(h) == Cardinality({s \in Services : h[s] # "none"})

\* greatest element of a set of numbers, 0 for the empty set
Newest(b) == IF b = {} THEN 0 ELSE CHOOSE t \in b : \A u \in b : u <= t

\* a loop that remembers the last missing variable it met instead of
\* stopping at the first
FirstMissing_last(e, i) ==
    Newest({j \in i..Len(required_vars) : required_vars[j] \notin e})

\* a loop whose test never fires
FirstMissing_none(e, i) == 0

\* [ -z "${!var}" ] over required_vars: first missing variable, 0 if none
RECURSIVE FirstMissing(_, _)
FirstMissing(e, i) ==
    IF i > Len(required_vars) THEN 0
    ELSE IF required_vars[i] \notin e THEN i
    ELSE FirstMissing(e, i + 1)

\* the process ends with a non-zero status at failure point f
Die(f) ==
    /\ pc' = "done"
    /\ exitCode' = ExitFailure
    /\ failure' = f

\* status tables a query can return: only running containers are listed
StatusTables(c) ==
    {h \in [Services -> HealthStatus] :
        \A s \in Services : c[s].tag = "none" => h[s] = "none"}

\* states a failed "up -d" can leave behind: a prefix of the dependency
\* chain mongodb -> backend -> frontend, short of the full set
PartialStarts ==
    {{}, {"mongodb"}, {"mongodb", "backend"}}

\* a clean-up that sorts newest first: all but the KeepBackups least names
Doomed_newest(b) ==
    {t \in b : Cardinality({u \in b : u < t}) >= KeepBackups}

\* sort | head -n -5: all but the KeepBackups greatest names
Doomed(b) ==
    {t \in b : Cardinality({u \in b : u > t}) >= KeepBackups}

\* numbers of old backup records the model starts from: none, exactly
\* as many as the clean-up keeps, and more than it keeps
OldBackupCounts == {0, KeepBackups, MaxOldBackups}

\* the one command of an invocation that fails, every time it is run,
\* on a host whose behaviour is fixed; "none" when every command succeeds
Faults ==
    {"none", "docker", "compose", "dump_failed", "copy_failed", "empty",
     "pull", "stop", "prune", "start", "unhealthy", "one_healthy",
     "backend_probe", "frontend_probe", "db_probe", "cleanup"}

\* a fixed behaviour: the fault, and whether the clock moves on to the
\* next second between the two backups of an invocation
Worlds == [fault : Faults, tick : BOOLEAN]

\* the host's behaviour is not fixed: each command may succeed or fail
FreeWorld == [fault |-> "free", tick |-> FALSE]

\* what GET /api/health has answered last; code 0: no request yet
NoResponse == [code |-> 0, status |-> "", uptime |-> 0, environment |-> ""]

\* the backend process when server.js has been loaded: mongoose.connect
\* is under way, app.listen has not yet bound the port
ServerLoaded(e) ==
    [listening |-> FALSE, db |-> "connecting", uptime |-> 0,
     response |-> NoResponse, askedIn |-> "", NODE_ENV |-> e]

NoServer == ServerLoaded("")

\* the jobs of the workflow
Jobs ==
    {"frontend-checks", "backend-checks", "security-scan", "build-images",
     "deploy"}

\* the steps of the deploy job, in order
DeploySteps ==
    <<"Checkout code", "Setup SSH", "Add Azure VM to known hosts",
      "Deploy to Azure VM", "Health Check After Deployment",
      "Notify deployment status">>

\* no workflow run
NoPipeline ==
    [event |-> "none",
     jobs |-> [j \in Jobs |-> "waiting"],
     steps |-> [i \in 1..Len(DeploySteps) |-> "pending"],
     notice |-> ""]

\* manual-deploy.sh not run; set: the variables of its environment that
\* are non-empty
ManualOff(set) ==
    [pc |-> "off", set |-> set, i |-> 1, exit |-> NoExit,
     commands |-> <<>>, out |-> <<>>]

NoManual == ManualOff({})

\* the NewsList component before it is mounted
\* requests: the fetches issued, in order, each with its result so far;
\* articles: the request whose articles are shown, 0 for the empty list
NoNews ==
    [mounted |-> FALSE, category |-> "", count |-> 0, requests |-> <<>>,
     articles |-> 0, loading |-> TRUE, error |-> ""]

\* nothing but deploy.sh and the backend is looked into
Outside ==
    /\ pipeline = NoPipeline
    /\ manual = NoManual
    /\ news = NoNews

\* value of first while the first invocation is running
NoFirst == [exitCode |-> NoExit, tags |-> [s \in Services |-> "none"]]

\* ------------------------------------------------------------------ Init
\* the host and the fresh process, before line 1
Start ==
    /\ pc = "main"
    /\ variant = 1
    /\ exitCode = NoExit
    /\ failure = "none"
    /\ env \in SUBSET RequiredVars
    /\ IMAGE_TAG \in ImageTagInputs
    /\ hostCompose \in HostCompose
    /\ DOCKER_COMPOSE_CMD = ""
    /\ errTrap = FALSE
    /\ containers \in {NoContainers, Release(PrevTag, 0)}
    /\ prev = containers
    /\ images = IF Running(containers) = {} THEN {}
                ELSE ReleaseImages(PrevTag)
    /\ pkgInstalled = FALSE
    /\ \E k \in OldBackupCounts : backups = 1..k
    /\ backupDir \in (IF backups = {} THEN BOOLEAN ELSE {TRUE})
    /\ newBackups = {}
    /\ pruned = {}
    /\ dump = "none"
    /\ health = NoHealth
    /\ attempt = 0
    /\ polls = 0
    /\ sleeps = 0
    /\ loopResult = [v \in 1..2 |-> "none"]
    /\ hcResult = [v \in 1..2 |-> "none"]
    /\ probes = <<>>
    /\ healthChecks = 0
    /\ rollbacks = 0
    /\ actions = <<>>
    /\ diag = {}
    /\ log = <<>>
    /\ run = 1
    /\ first = NoFirst

\* no second invocation is running, and the backend is not looked into
Alone ==
    /\ other = "absent"
    /\ server = NoServer
    /\ Outside

\* one invocation on a host where each command may succeed or fail
Init ==
    /\ Start
    /\ world = FreeWorld
    /\ Alone

\* --------------------------------------------------------------- actions

\* a main that goes to the checks without the started record
main_unrecorded ==
    /\ pc = "main"
    /\ errTrap' = IF variant = 1 THEN TRUE ELSE FALSE
    /\ probes' = <<>>
    /\ pc' = "check_docker"
    /\ UNCHANGED <<variant, exitCode, failure, hostVars, DOCKER_COMPOSE_CMD,
                   containers, images, pkgInstalled, backupVars, loopVars,
                   loopResult, hcResult, healthChecks, rollbacks, actions,
                   diag, log>>

\* main, up to the first check: the "Deployment started" record; the
\* first variant installs the ERR trap here, the second after the backup
main ==
    /\ pc = "main"
    /\ log' = Append(log, "started")
    /\ errTrap' = IF variant = 1 THEN TRUE ELSE FALSE
    /\ probes' = <<>>
    /\ pc' = "check_docker"
    /\ UNCHANGED <<variant, exitCode, failure, hostVars, DOCKER_COMPOSE_CMD,
                   containers, images, pkgInstalled, backupVars, loopVars,
                   loopResult, hcResult, healthChecks, rollbacks, actions,
                   diag>>

\* check_docker: "docker info", which answers dockerUp
check_docker_on(dockerUp) ==
    /\ pc = "check_docker"
    /\ IF dockerUp
       THEN /\ pc' = IF variant = 1 THEN "check_env_vars"
                     ELSE "check_docker_compose"
            /\ UNCHANGED <<exitCode, failure>>
       ELSE Die("docker")
    /\ UNCHANGED <<variant, hostVars, DOCKER_COMPOSE_CMD, errTrap, containers,
                   images, pkgInstalled, backupVars, loopVars, loopResult,
                   verifyVars, rollbacks, actions, diag, log>>

check_docker == \E dockerUp \in BOOLEAN : check_docker_on(dockerUp)

\* check_docker_compose (second variant only); installed: the outcome of
\* "apt-get update && apt-get install -y docker-compose-plugin"
check_docker_compose_on(installed) ==
    /\ pc = "check_docker_compose"
    /\ IF hostCompose = "standalone"
       THEN /\ DOCKER_COMPOSE_CMD' = "docker-compose"
            /\ pc' = "check_env_vars"
            /\ UNCHANGED <<exitCode, failure, pkgInstalled>>
       ELSE IF hostCompose = "plugin"
       THEN /\ DOCKER_COMPOSE_CMD' = "docker compose"
            /\ pc' = "check_env_vars"
            /\ UNCHANGED <<exitCode, failure, pkgInstalled>>
       ELSE IF hostCompose = "apt"
       THEN IF installed
            THEN /\ DOCKER_COMPOSE_CMD' = "docker compose"
                 /\ pkgInstalled' = TRUE
                 /\ pc' = "check_env_vars"
                 /\ UNCHANGED <<exitCode, failure>>
            ELSE /\ Die("compose")
                 /\ UNCHANGED <<DOCKER_COMPOSE_CMD, pkgInstalled>>
       ELSE /\ Die("compose")
            /\ UNCHANGED <<DOCKER_COMPOSE_CMD, pkgInstalled>>
    /\ UNCHANGED <<variant, hostVars, errTrap, containers, images, backupVars,
                   loopVars, loopResult, verifyVars, rollbacks, actions, diag,
                   log>>

check_docker_compose ==
    \E installed \in BOOLEAN : check_docker_compose_on(installed)

\* check_env_vars: exits at the first variable that is unset or empty,
\* after the record that names it
check_env_vars ==
    /\ pc = "check_env_vars"
    /\ IF FirstMissing(env, 1) = 0
       THEN /\ pc' = "backup_database"
            /\ log' = log
            /\ UNCHANGED <<exitCode, failure>>
       ELSE /\ Die("config")
            /\ log' = log \o <<"missing", required_vars[FirstMissing(env, 1)]>>
    /\ UNCHANGED <<variant, hostVars, DOCKER_COMPOSE_CMD, errTrap, containers,
                   images, pkgInstalled, backupVars, loopVars, loopResult,
                   verifyVars, rollbacks, actions, diag>>

\* outcomes of the dump-and-copy of backup_database
BackupOutcomes == {"ok", "empty", "dump_failed", "copy_failed"}

\* greatest timestamp among the records of earlier invocations
NewestOld == Newest((backups \cup pruned) \ newBackups)

\* date +"%Y%m%d_%H%M%S": the first variant's backup is newer than every
\* old record; the second variant's may fall in the same second as the
\* first's or in a later one
Timestamps(v) ==
    IF v = 1 THEN {NewestOld + 1} ELSE {NewestOld + 1, NewestOld + 2}

\* a test that takes the store for running whatever the container list says
MongoRunning_always(c) == TRUE

\* docker ps | grep -q insight360-mongodb
MongoRunning(c) == c["mongodb"].tag # "none"

\* a backup that stops the store to copy its files cold
backup_database_on_cold(outcome, t) ==
    /\ pc = "backup_database"
    /\ pc' = "pull_images"
    /\ containers' = Keep(containers, Running(containers) \ {"mongodb"})
    /\ backups' = backups \cup {t}
    /\ newBackups' = newBackups \cup {t}
    /\ dump' = "ok"
    /\ backupDir' = TRUE
    /\ errTrap' = TRUE
    /\ log' = Append(log, "backup_created")
    /\ UNCHANGED <<variant, exitCode, failure, hostVars, DOCKER_COMPOSE_CMD,
                   images, pkgInstalled, pruned, loopVars, loopResult,
                   verifyVars, rollbacks, actions, diag>>

\* backup_database, with the outcome of the dump-and-copy and the second
\* the clock shows.  First variant (lines 67-88): runs under set -e, a
\* failed dump or copy ends the process; nothing is dumped when ./backups
\* did not exist; the dump is not looked into.  Second variant (lines
\* 329-362, called between set +e and set -e): every failure is a warning.
\* Lines 514-515 of the second main (the ERR trap) follow the call.
backup_database_on(outcome, t) ==
    /\ pc = "backup_database"
    /\ IF variant = 1
       THEN IF ~backupDir
            THEN /\ backupDir' = TRUE
                 /\ dump' = "none"
                 /\ pc' = "pull_images"
                 /\ UNCHANGED <<exitCode, failure, backups, newBackups, log>>
            ELSE IF ~MongoRunning(containers)
            THEN /\ pc' = "pull_images"
                 /\ dump' = "none"
                 /\ log' = Append(log, "backup_skipped")
                 /\ UNCHANGED <<exitCode, failure, backupDir, backups,
                                newBackups>>
            ELSE IF outcome \in {"dump_failed", "copy_failed"}
            THEN /\ Die("backup")
                 /\ dump' = outcome
                 /\ UNCHANGED <<backupDir, backups, newBackups, log>>
            ELSE /\ backups' = backups \cup {t}
                 /\ newBackups' = newBackups \cup {t}
                 /\ dump' = outcome
                 /\ log' = Append(log, "backup_created")
                 /\ pc' = "pull_images"
                 /\ UNCHANGED <<exitCode, failure, backupDir>>
       ELSE /\ backupDir' = TRUE
            /\ pc' = "pull_images"
            /\ UNCHANGED <<exitCode, failure>>
            /\ IF ~MongoRunning(containers)
               THEN /\ log' = Append(log, "backup_skipped")
                    /\ dump' = "none"
                    /\ UNCHANGED <<backups, newBackups>>
               ELSE IF outcome = "ok"
               THEN /\ backups' = backups \cup {t}
                    /\ newBackups' = newBackups \cup {t}
                    /\ dump' = outcome
                    /\ log' = Append(log, "backup_created")
               ELSE /\ log' = Append(log, "backup_warning")
                    /\ dump' = outcome
                    /\ UNCHANGED <<backups, newBackups>>
    /\ errTrap' = TRUE
    /\ UNCHANGED <<variant, hostVars, DOCKER_COMPOSE_CMD, containers, images,
                   pkgInstalled, pruned, loopVars, loopResult, verifyVars,
                   rollbacks, actions, diag>>

backup_database ==
    \E outcome \in BackupOutcomes, t \in Timestamps(variant) :
        backup_database_on(outcome, t)

\* pull_images: the first variant calls docker-compose by name, which
\* exists only on a host with the standalone binary.  A failed pull
\* leaves the images of part behind.
pull_images_on(pulled, part) ==
    /\ pc = "pull_images"
    /\ IF pulled /\ (variant = 2 \/ hostCompose = "standalone")
       THEN /\ images' = images \cup ReleaseImages(image_tag(IMAGE_TAG))
            /\ pc' = "deploy_stop"
            /\ UNCHANGED <<exitCode, failure>>
       ELSE /\ images' = images \cup
                   {<<i, image_tag(IMAGE_TAG)>> : i \in part}
            /\ Die("pull")
    /\ dump' = "none"
    /\ UNCHANGED <<variant, hostVars, DOCKER_COMPOSE_CMD, errTrap, containers,
                   pkgInstalled, backupDir, backups, newBackups, pruned,
                   loopVars, loopResult, verifyVars, rollbacks, actions, diag,
                   log>>

pull_images ==
    \E pulled \in BOOLEAN, part \in (SUBSET AppImages) \ {AppImages} :
        pull_images_on(pulled, part)

\* deploy_application, "Stop existing containers gracefully".  A failed
\* "down" leaves the containers of keep running.
deploy_stop_on(stopped, keep) ==
    /\ pc = "deploy_stop"
    /\ IF Running(containers) = {}
       THEN /\ pc' = "deploy_prune"
            /\ UNCHANGED <<exitCode, failure, containers, actions>>
       ELSE /\ actions' = Append(actions, "down")
            /\ IF stopped
               THEN /\ containers' = NoContainers
                    /\ pc' = "deploy_prune"
                    /\ UNCHANGED <<exitCode, failure>>
               ELSE /\ containers' = Keep(containers, keep)
                    /\ Die("stop")
    /\ UNCHANGED <<variant, hostVars, DOCKER_COMPOSE_CMD, errTrap, images,
                   pkgInstalled, backupVars, loopVars, loopResult, verifyVars,
                   rollbacks, diag, log>>

deploy_stop ==
    \E stopped \in BOOLEAN, keep \in SUBSET Running(containers) :
        deploy_stop_on(stopped, keep)

\* deploy_application, "docker image prune -f": a plain command under set -e
deploy_prune_on(pruneOk) ==
    /\ pc = "deploy_prune"
    /\ IF pruneOk
       THEN /\ pc' = "deploy_start"
            /\ UNCHANGED <<exitCode, failure>>
       ELSE Die("prune")
    /\ UNCHANGED <<variant, hostVars, DOCKER_COMPOSE_CMD, errTrap, containers,
                   images, pkgInstalled, backupVars, loopVars, loopResult,
                   verifyVars, rollbacks, actions, diag, log>>

deploy_prune == \E pruneOk \in BOOLEAN : deploy_prune_on(pruneOk)

\* deploy_application, "up -d" and the loop's local variables.  A failed
\* "up -d" leaves the containers of part running.
deploy_start_on(started, part) ==
    /\ pc = "deploy_start"
    /\ actions' = Append(actions, "up")
    /\ IF started
       THEN /\ containers' = Release(image_tag(IMAGE_TAG), variant)
            /\ attempt' = 1
            /\ polls' = 0
            /\ sleeps' = 0
            /\ pc' = "deploy_poll"
            /\ UNCHANGED <<exitCode, failure>>
       ELSE /\ containers' =
                   Keep(Release(image_tag(IMAGE_TAG), variant), part)
            /\ Die("start")
            /\ UNCHANGED <<attempt, polls, sleeps>>
    /\ UNCHANGED <<variant, hostVars, DOCKER_COMPOSE_CMD, errTrap, images,
                   pkgInstalled, backupVars, health, loopResult, verifyVars,
                   rollbacks, diag, log>>

deploy_start ==
    \E started \in BOOLEAN, part \in PartialStarts :
        deploy_start_on(started, part)

\* the test that ends the polling loop with success.  First variant:
\* grep -q "Up (healthy)" over the whole table.  Second variant:
\* [ "$healthy_count" -eq "$total_services" ] && [ "$total_services" -eq 3 ]
LoopSuccess(v, h) ==
    IF v = 1
    THEN \E s \in Services : h[s] = "healthy"
    ELSE /\ healthy_count(h) = total_services(h)
         /\ total_services(h) = ExpectedServices

\* the loop guard: while [ $attempt -le $max_attempts ]
LoopGuard(v, a) == a <= max_attempts(v)

\* a give-up test that fires one pass early
LastAttempt_early(v, a) == a = max_attempts(v) - 1

\* the give-up test: if [ $attempt -eq $max_attempts ]
LastAttempt(v, a) == a = max_attempts(v)

\* a loop that takes the final captures but never the store's log tail
PollDiag_final_only(v, h, last) ==
    IF ~last THEN {}
    ELSE IF v = 1 THEN {"all_logs"} ELSE {"all_tail50", "ps_status"}

\* diagnostics taken in one pass of the loop that did not succeed
PollDiag(v, h, last) ==
    (IF v = 2 /\ h["mongodb"] = "unhealthy" THEN {"mongodb_tail20"} ELSE {})
    \cup (IF ~last THEN {}
          ELSE IF v = 1 THEN {"all_logs"} ELSE {"all_tail50", "ps_status"})

\* one pass of the polling loop up to the sleep: query the status, leave
\* with success, give up with exit 1, or go to sleep.  A false loop guard
\* ends the loop and the function returns to main.  h: the table the
\* status query returns.
deploy_poll_on(h) ==
    /\ pc = "deploy_poll"
    /\ IF ~LoopGuard(variant, attempt)
       THEN /\ pc' = "health_check"
            /\ UNCHANGED <<exitCode, failure, loopVars, loopResult, diag,
                           log>>
       ELSE /\ health' = h
            /\ polls' = polls + 1
            /\ UNCHANGED <<attempt, sleeps>>
            /\ IF LoopSuccess(variant, h)
               THEN /\ loopResult' =
                          [loopResult EXCEPT ![variant] = "AllHealthy"]
                    /\ pc' = "health_check"
                    /\ UNCHANGED <<exitCode, failure, diag, log>>
               ELSE /\ diag' = diag \cup
                          PollDiag(variant, h, LastAttempt(variant, attempt))
                    /\ IF LastAttempt(variant, attempt)
                       THEN /\ loopResult' =
                                  [loopResult EXCEPT ![variant] = "TimedOut"]
                            /\ log' = Append(log, "timeout")
                            /\ Die("timeout")
                       ELSE /\ pc' = "deploy_sleep"
                            /\ UNCHANGED <<exitCode, failure, loopResult,
                                           log>>
    /\ UNCHANGED <<variant, hostVars, DOCKER_COMPOSE_CMD, errTrap, containers,
                   images, pkgInstalled, backupVars, verifyVars, rollbacks,
                   actions>>

deploy_poll == \E h \in StatusTables(containers) : deploy_poll_on(h)

\* sleep 10 / sleep 15 and ((attempt++)).  The status table of the pass
\* is not read again: the next pass queries anew.
deploy_sleep ==
    /\ pc = "deploy_sleep"
    /\ sleeps' = sleeps + 1
    /\ attempt' = attempt + 1
    /\ health' = NoHealth
    /\ pc' = "deploy_poll"
    /\ UNCHANGED <<variant, exitCode, failure, hostVars, DOCKER_COMPOSE_CMD,
                   errTrap, containers, images, pkgInstalled, backupVars,
                   polls, loopResult, verifyVars, rollbacks, actions, diag,
                   log>>

\* the external probes, in the order health_check runs them
ProbeOrder == <<"backend", "frontend", "database">>

\* a health_check that runs every probe before it decides
ProbesRun_all(ok) == <<"backend", "frontend", "database">>

\* the probes health_check executes: it returns at the first failing
\* HTTP probe
ProbesRun(ok) ==
    IF ~ok["backend"] THEN <<"backend">>
    ELSE IF ~ok["frontend"] THEN <<"backend", "frontend">>
    ELSE ProbeOrder

\* a health_check that forgets the frontend probe's result
HealthCheckPasses_backend_only(ok) == ok["backend"]

\* the status health_check returns.  The database probe is
\* "docker exec ... npm run db-check 2>/dev/null || true", which is true
\* whatever the probe returns.
HealthCheckPasses(ok) ==
    /\ ok["backend"]
    /\ ok["frontend"]
    /\ (ok["database"] \/ TRUE)

\* what health_check appends to the log
HealthCheckLog(ok) ==
    IF ~ok["backend"] THEN <<"backend_failed">>
    ELSE IF ~ok["frontend"] THEN <<"backend_passed", "frontend_failed">>
    ELSE <<"backend_passed", "frontend_passed", "database_passed">>

\* health_check and the "if health_check; then ... else ... exit 1" of main.
\* The locals of deploy_application are gone once it has returned.
\* ok: what each external probe would answer.
health_check_on(ok) ==
    /\ pc = "health_check"
    /\ healthChecks' = healthChecks + 1
    /\ attempt' = 0
    /\ polls' = 0
    /\ sleeps' = 0
    /\ probes' = [i \in 1..Len(ProbesRun(ok)) |->
                    [probe |-> ProbesRun(ok)[i],
                     ok |-> ok[ProbesRun(ok)[i]]]]
    /\ IF HealthCheckPasses(ok)
       THEN /\ hcResult' = [hcResult EXCEPT ![variant] = "pass"]
            /\ log' = log \o HealthCheckLog(ok)
            /\ pc' = "verified"
            /\ UNCHANGED <<exitCode, failure>>
       ELSE /\ hcResult' = [hcResult EXCEPT ![variant] = "fail"]
            /\ log' = log \o HealthCheckLog(ok) \o <<"hc_failed">>
            /\ Die("health")
    /\ UNCHANGED <<variant, hostVars, DOCKER_COMPOSE_CMD, errTrap, containers,
                   images, pkgInstalled, backupVars, health, loopResult,
                   rollbacks, actions, diag>>

health_check ==
    \E ok \in [{"backend", "frontend", "database"} -> BOOLEAN] :
        health_check_on(ok)

\* the then-branch of main: the success record, show_status, the backup
\* clean-up "find | sort | head -n -5 | xargs rm -rf" and the completed
\* record.  The clean-up is a plain pipeline in the body of main: when rm
\* cannot remove a record the pipeline fails and the ERR trap fires.  When
\* the first main returns, bash goes on to line 241.  removed: the
\* records rm has removed when the pipeline ends.
verified_on(removed) ==
    /\ pc = "verified"
    /\ backups' = backups \ removed
    /\ pruned' = pruned \cup removed
    /\ IF removed = Doomed(backups)
       THEN /\ log' = log \o <<"success", "completed">>
            /\ IF variant = 1
               THEN /\ variant' = 2
                    /\ pc' = "main"
                    /\ UNCHANGED <<exitCode, failure>>
               ELSE /\ pc' = "done"
                    /\ exitCode' = ExitSuccess
                    /\ UNCHANGED <<variant, failure>>
       ELSE /\ log' = Append(log, "success")
            /\ UNCHANGED variant
            /\ IF errTrap
               THEN /\ pc' = "rollback"
                    /\ failure' = "cleanup"
                    /\ UNCHANGED exitCode
               ELSE Die("cleanup")
    /\ UNCHANGED <<hostVars, DOCKER_COMPOSE_CMD, errTrap, containers, images,
                   pkgInstalled, backupDir, newBackups, dump, loopVars,
                   loopResult, verifyVars, rollbacks, actions, diag>>

verified == \E removed \in SUBSET Doomed(backups) : verified_on(removed)

\* a rollback that brings the previous release back after the down
rollback_on_restore(stopped, keep) ==
    /\ pc = "rollback"
    /\ rollbacks' = rollbacks + 1
    /\ actions' = actions \o <<"down", "up">>
    /\ pc' = "done"
    /\ exitCode' = ExitFailure
    /\ containers' = prev
    /\ diag' = diag \cup {"rollback_tail50"}
    /\ log' = log \o <<"rollback", "manual_intervention">>
    /\ UNCHANGED <<variant, failure, hostVars, DOCKER_COMPOSE_CMD, errTrap,
                   images, pkgInstalled, backupVars, loopVars, loopResult,
                   verifyVars>>

\* a rollback that reads the log tail before it takes the containers down
rollback_on_tail_first(stopped, keep) ==
    /\ pc = "rollback"
    /\ rollbacks' = rollbacks + 1
    /\ actions' = Append(actions, "down")
    /\ pc' = "done"
    /\ exitCode' = ExitFailure
    /\ diag' = diag \cup {"rollback_tail50"}
    /\ IF stopped
       THEN /\ containers' = NoContainers
            /\ log' = log \o <<"rollback", "manual_intervention">>
       ELSE /\ containers' = Keep(containers, keep)
            /\ log' = Append(log, "rollback")
    /\ UNCHANGED <<variant, failure, hostVars, DOCKER_COMPOSE_CMD, errTrap,
                   images, pkgInstalled, backupVars, loopVars, loopResult,
                   verifyVars>>

\* rollback, run by the ERR trap; the shell exits non-zero after it.  A
\* failing "down" ends the process inside the handler and leaves the
\* containers of keep running.
rollback_on(stopped, keep) ==
    /\ pc = "rollback"
    /\ rollbacks' = rollbacks + 1
    /\ actions' = Append(actions, "down")
    /\ pc' = "done"
    /\ exitCode' = ExitFailure
    /\ IF stopped
       THEN /\ containers' = NoContainers
            /\ diag' = diag \cup {"rollback_tail50"}
            /\ log' = log \o <<"rollback", "manual_intervention">>
       ELSE /\ containers' = Keep(containers, keep)
            /\ log' = Append(log, "rollback")
            /\ UNCHANGED diag
    /\ UNCHANGED <<variant, failure, hostVars, DOCKER_COMPOSE_CMD, errTrap,
                   images, pkgInstalled, backupVars, loopVars, loopResult,
                   verifyVars>>

rollback ==
    \E stopped \in BOOLEAN, keep \in SUBSET Running(containers) :
        rollback_on(stopped, keep)

Next ==
    \/ main
    \/ check_docker
    \/ check_docker_compose
    \/ check_env_vars
    \/ backup_database
    \/ pull_images
    \/ deploy_stop
    \/ deploy_prune
    \/ deploy_start
    \/ deploy_poll
    \/ deploy_sleep
    \/ health_check
    \/ verified
    \/ rollback

Spec == Init /\ [][Next]_vars

\* ------------------------------------------ the script run twice in a row
\* Two invocations, one after the other, on a host whose behaviour is
\* fixed: each command answers the same way every time it is run.

Fault == world.fault

\* the status table of a host with a fixed behaviour
FixedTable(c) ==
    [s \in Services |->
        IF c[s].tag = "none" THEN "none"
        ELSE IF Fault = "unhealthy" THEN "starting"
        ELSE IF Fault = "one_healthy" /\ s # "mongodb" THEN "starting"
        ELSE "healthy"]

FixedOutcome ==
    IF Fault \in {"dump_failed", "copy_failed", "empty"} THEN Fault ELSE "ok"

FixedTimestamp ==
    IF world.tick THEN Newest(Timestamps(variant)) ELSE NewestOld + 1

FixedProbes ==
    [p \in {"backend", "frontend", "database"} |->
        IF p = "backend" THEN Fault # "backend_probe"
        ELSE IF p = "frontend" THEN Fault # "frontend_probe"
        ELSE Fault # "db_probe"]

FixedRemoved == IF Fault = "cleanup" THEN {} ELSE Doomed(backups)

\* the containers an invocation leaves behind are, to the next
\* invocation, containers of an earlier invocation
Earlier(c) == [s \in Services |-> [tag |-> c[s].tag, by |-> 0]]

Tags(c) == [s \in Services |-> c[s].tag]

\* the operator runs the script a second time, with the same environment
\* and the same release tag, once the first invocation has ended
run_again ==
    /\ pc = "done"
    /\ run = 1
    /\ run' = 2
    /\ first' = [exitCode |-> exitCode, tags |-> Tags(containers)]
    /\ pc' = "main"
    /\ variant' = 1
    /\ exitCode' = NoExit
    /\ failure' = "none"
    /\ DOCKER_COMPOSE_CMD' = ""
    /\ errTrap' = FALSE
    /\ containers' = Earlier(containers)
    /\ prev' = Earlier(containers)
    /\ hostCompose' = IF pkgInstalled THEN "plugin" ELSE hostCompose
    /\ pkgInstalled' = FALSE
    /\ newBackups' = {}
    /\ pruned' = {}
    /\ dump' = "none"
    /\ health' = NoHealth
    /\ attempt' = 0
    /\ polls' = 0
    /\ sleeps' = 0
    /\ loopResult' = [v \in 1..2 |-> "none"]
    /\ hcResult' = [v \in 1..2 |-> "none"]
    /\ probes' = <<>>
    /\ healthChecks' = 0
    /\ rollbacks' = 0
    /\ actions' = <<>>
    /\ diag' = {}
    /\ log' = <<>>
    /\ UNCHANGED <<env, IMAGE_TAG, images, backupDir, backups, world, other,
                   server, pipeline, manual, news>>

TwiceInit ==
    /\ Start
    /\ world \in Worlds
    /\ Alone

\* a step of an invocation on a host with a fixed behaviour, up to
\* health_check
FixedDeploy ==
    \/ main
    \/ check_docker_on(Fault # "docker")
    \/ check_docker_compose_on(Fault # "compose")
    \/ check_env_vars
    \/ backup_database_on(FixedOutcome, FixedTimestamp)
    \/ pull_images_on(Fault # "pull", {})
    \/ deploy_stop_on(Fault # "stop", Running(containers))
    \/ deploy_prune_on(Fault # "prune")
    \/ deploy_start_on(Fault # "start", {"mongodb"})
    \/ deploy_poll_on(FixedTable(containers))
    \/ deploy_sleep

\* a step of main after health_check on such a host
FixedEnd ==
    \/ verified_on(FixedRemoved)
    \/ rollback_on(Fault # "stop", Running(containers))

TwiceNext ==
    \/ FixedDeploy
    \/ health_check_on(FixedProbes)
    \/ FixedEnd
    \/ run_again

TwiceSpec == TwiceInit /\ [][TwiceNext]_vars

\* ------------------------------------------- two invocations at a time
\* A second invocation of the same script runs on the same host while
\* the first is under way.  Of the second only the steps that act on the
\* containers are followed: the Stopping and the Starting step of its
\* deploy_application.  The script takes no lock and the compose project
\* is the same, so its "ps -q" and "down" see every container of the
\* project.

\* marks the containers the concurrent invocation has started
OtherInvocation == 3

\* every variable but containers and other
restVars ==
    <<pc, variant, exitCode, failure, env, IMAGE_TAG, hostCompose,
      DOCKER_COMPOSE_CMD, errTrap, prev, images, pkgInstalled, backupDir,
      backups, newBackups, pruned, dump, health, attempt, polls, sleeps,
      loopResult, hcResult, probes, healthChecks, rollbacks, actions, diag,
      log, run, first, world, server, pipeline, manual, news>>

\* the concurrent invocation's "Stop existing containers gracefully"
other_stop ==
    /\ other = "deploy_stop"
    /\ other' = "deploy_start"
    /\ containers' = IF Running(containers) = {} THEN containers
                     ELSE NoContainers
    /\ UNCHANGED restVars

\* the concurrent invocation's "docker image prune -f" and "up -d"
other_start ==
    /\ other = "deploy_start"
    /\ other' = "done"
    /\ containers' = Release(image_tag(IMAGE_TAG), OtherInvocation)
    /\ UNCHANGED restVars

\* curl reaches a service only while its container runs
LiveProbes ==
    [p \in {"backend", "frontend", "database"} |->
        /\ FixedProbes[p]
        /\ containers[IF p = "database" THEN "mongodb" ELSE p].tag # "none"]

ConcInit ==
    /\ Start
    /\ env = RequiredVars
    /\ hostCompose = "standalone"
    /\ world \in Worlds
    /\ other = "deploy_stop"
    /\ server = NoServer
    /\ Outside

ConcNext ==
    \/ FixedDeploy
    \/ health_check_on(LiveProbes)
    \/ FixedEnd
    \/ other_stop
    \/ other_start

ConcSpec == ConcInit /\ [][ConcNext]_vars

\* ------------------------------------------------ an invocation cancelled
\* status of a process ended by SIGTERM: 128 + 15
ExitCancelled == 143

\* the process is killed from outside while it sleeps between two polls;
\* the script traps ERR only, so no handler runs
cancel ==
    /\ pc = "deploy_sleep"
    /\ pc' = "done"
    /\ exitCode' = ExitCancelled
    /\ failure' = "cancelled"
    /\ UNCHANGED <<variant, hostVars, DOCKER_COMPOSE_CMD, errTrap, containers,
                   images, pkgInstalled, backupVars, loopVars, loopResult,
                   verifyVars, rollbacks, actions, diag, log>>

CancelInit ==
    /\ Start
    /\ env = RequiredVars
    /\ hostCompose = "standalone"
    /\ world \in Worlds
    /\ Alone

CancelNext ==
    \/ FixedDeploy
    \/ health_check_on(FixedProbes)
    \/ FixedEnd
    \/ cancel

CancelSpec == CancelInit /\ [][CancelNext]_vars


\* ------------------------------------------------- the backend (server.js)
\* seconds of process.uptime() the model follows
MaxUptime == 3

\* values of NODE_ENV: unset, and set
NodeEnvInputs == {"", "production"}

\* states of the mongoose connection
DbStates == {"connecting", "connected", "failed", "lost"}

\* everything but the backend process
deployVars ==
    <<pc, variant, exitCode, failure, env, IMAGE_TAG, hostCompose,
      DOCKER_COMPOSE_CMD, errTrap, prev, containers, images, pkgInstalled,
      backupDir, backups, newBackups, pruned, dump, health, attempt, polls,
      sleeps, loopResult, hcResult, probes, healthChecks, rollbacks, actions,
      diag, log, run, first, world, other, pipeline, manual, news>>

\* a health route that reports the database
HealthAnswer_db_aware(db, up, e) ==
    [code |-> IF db = "connected" THEN 200 ELSE 503,
     status |-> IF db = "connected" THEN "healthy" ELSE "unhealthy",
     uptime |-> up,
     environment |-> IF e = "" THEN "development" ELSE e]

\* app.get('/api/health'): res.status(200).json({status, timestamp,
\* uptime, environment}); db is the connection state at the request
HealthAnswer(db, up, e) ==
    [code |-> 200,
     status |-> "healthy",
     uptime |-> up,
     environment |-> IF e = "" THEN "development" ELSE e]

\* app.listen(PORT, '0.0.0.0')
server_listen ==
    /\ ~server.listening
    /\ server' = [server EXCEPT !.listening = TRUE]
    /\ UNCHANGED deployVars

\* mongoose.connect(...).then(...): the callbacks run after the module's
\* top-level code, that is after app.listen
db_connected ==
    /\ server.listening
    /\ server.db = "connecting"
    /\ server' = [server EXCEPT !.db = "connected"]
    /\ UNCHANGED deployVars

\* mongoose.connect(...).catch(...): the error is printed, nothing more
db_failed ==
    /\ server.listening
    /\ server.db = "connecting"
    /\ server' = [server EXCEPT !.db = "failed"]
    /\ UNCHANGED deployVars

\* the store goes away under an established connection
db_lost ==
    /\ server.db = "connected"
    /\ server' = [server EXCEPT !.db = "lost"]
    /\ UNCHANGED deployVars

\* the driver reconnects
db_back ==
    /\ server.db = "lost"
    /\ server' = [server EXCEPT !.db = "connected"]
    /\ UNCHANGED deployVars

\* a second of process.uptime()
server_tick ==
    /\ server.uptime < MaxUptime
    /\ server' = [server EXCEPT !.uptime = @ + 1]
    /\ UNCHANGED deployVars

\* GET /api/health reaches the listening process
get_health ==
    /\ server.listening
    /\ server' = [server EXCEPT
                    !.response = HealthAnswer(server.db, server.uptime,
                                              server.NODE_ENV),
                    !.askedIn = server.db]
    /\ UNCHANGED deployVars

\* the backend of a running release, no invocation under way
ServerInit ==
    /\ Start
    /\ env = RequiredVars
    /\ IMAGE_TAG = ""
    /\ hostCompose = "standalone"
    /\ containers = Release(PrevTag, 0)
    /\ backups = {}
    /\ backupDir = FALSE
    /\ world = FreeWorld
    /\ other = "absent"
    /\ server \in {ServerLoaded(e) : e \in NodeEnvInputs}
    /\ Outside

ServerNext ==
    \/ server_listen
    \/ db_connected
    \/ db_failed
    \/ db_lost
    \/ db_back
    \/ server_tick
    \/ get_health

ServerSpec == ServerInit /\ [][ServerNext]_vars


\* ------------------------------------- the CI/CD workflow (part_002)
\* the variables of deploy.sh and of its host
scriptVars ==
    <<pc, variant, exitCode, failure, env, IMAGE_TAG, hostCompose,
      DOCKER_COMPOSE_CMD, errTrap, prev, containers, images, pkgInstalled,
      backupDir, backups, newBackups, pruned, dump, health, attempt, polls,
      sleeps, loopResult, hcResult, probes, healthChecks, rollbacks, actions,
      diag, log, run, first, world, other>>

\* on: push to main or develop, pull_request to main
Events == {"push_main", "push_develop", "pull_request_main"}

\* github.ref of an event
Ref(e) ==
    IF e = "push_main" THEN "refs/heads/main"
    ELSE IF e = "push_develop" THEN "refs/heads/develop"
    ELSE "refs/pull/1/merge"

\* needs: of a job
Needs(j) ==
    IF j = "build-images" THEN {"frontend-checks", "backend-checks"}
    ELSE IF j = "deploy" THEN {"build-images", "security-scan"}
    ELSE {}

\* a workflow whose jobs carry no condition
JobIf_any(j, ref) == TRUE

\* if: of a job
JobIf(j, ref) ==
    IF j \in {"build-images", "deploy"} THEN ref = "refs/heads/main"
    ELSE TRUE

\* a job that has ended
Concluded == {"success", "failure", "skipped"}

\* a job starts once the jobs it needs have ended; it is skipped unless
\* all of them succeeded and its condition holds
job_begin ==
    \E j \in Jobs :
        /\ pipeline.event # "none"
        /\ pipeline.jobs[j] = "waiting"
        /\ \A n \in Needs(j) : pipeline.jobs[n] \in Concluded
        /\ pipeline' =
            [pipeline EXCEPT !.jobs[j] =
                IF /\ \A n \in Needs(j) : pipeline.jobs[n] = "success"
                   /\ JobIf(j, Ref(pipeline.event))
                THEN "running" ELSE "skipped"]
        /\ UNCHANGED <<scriptVars, server, manual, news>>

\* the steps of a job other than deploy, as one step
job_end ==
    \E j \in Jobs \ {"deploy"}, ok \in BOOLEAN :
        /\ pipeline.jobs[j] = "running"
        /\ pipeline' =
            [pipeline EXCEPT !.jobs[j] = IF ok THEN "success" ELSE "failure"]
        /\ UNCHANGED <<scriptVars, server, manual, news>>

\* the first step of the deploy job that has not been dealt with
NextStep ==
    CHOOSE i \in 1..Len(DeploySteps) :
        /\ pipeline.steps[i] = "pending"
        /\ \A k \in 1..(i - 1) : pipeline.steps[k] # "pending"

\* a step ahead of step i has failed
FailedBefore(i) == \E k \in 1..(i - 1) : pipeline.steps[k] = "failure"

\* if: of a step; a step without one runs while no step has failed
StepIf(i) ==
    IF DeploySteps[i] = "Notify deployment status" THEN TRUE
    ELSE ~FailedBefore(i)

\* $? in the first command of a step's script: the shell is a new process
ShellStatusAtStart == 0

\* the script of "Notify deployment status": if [ $? -eq 0 ]
Notify(q) ==
    IF q = 0 THEN [notice |-> "successful", outcome |-> "success"]
    ELSE [notice |-> "failed", outcome |-> "failure"]

\* one step of the deploy job; ok: whether its commands succeed
deploy_step ==
    \E ok \in BOOLEAN :
        /\ pipeline.jobs["deploy"] = "running"
        /\ \E i \in 1..Len(DeploySteps) : pipeline.steps[i] = "pending"
        /\ pipeline' =
            IF ~StepIf(NextStep)
            THEN [pipeline EXCEPT !.steps[NextStep] = "skipped"]
            ELSE IF DeploySteps[NextStep] = "Notify deployment status"
            THEN [pipeline EXCEPT
                    !.steps[NextStep] = Notify(ShellStatusAtStart).outcome,
                    !.notice = Notify(ShellStatusAtStart).notice]
            ELSE [pipeline EXCEPT
                    !.steps[NextStep] = IF ok THEN "success" ELSE "failure"]
        /\ UNCHANGED <<scriptVars, server, manual, news>>

\* the deploy job ends: it has failed when one of its steps has
deploy_end ==
    /\ pipeline.jobs["deploy"] = "running"
    /\ \A i \in 1..Len(DeploySteps) : pipeline.steps[i] # "pending"
    /\ pipeline' =
        [pipeline EXCEPT !.jobs["deploy"] =
            IF FailedBefore(Len(DeploySteps) + 1) THEN "failure"
            ELSE "success"]
    /\ UNCHANGED <<scriptVars, server, manual, news>>

\* the host of an idle deployment; deploy.sh is not run
IdleHost ==
    /\ Start
    /\ env = RequiredVars
    /\ IMAGE_TAG = ""
    /\ hostCompose = "standalone"
    /\ containers = Release(PrevTag, 0)
    /\ backups = {}
    /\ backupDir = FALSE
    /\ world = FreeWorld
    /\ other = "absent"

PipelineInit ==
    /\ IdleHost
    /\ server = NoServer
    /\ manual = NoManual
    /\ news = NoNews
    /\ pipeline \in {[NoPipeline EXCEPT !.event = e] : e \in Events}

PipelineNext ==
    \/ job_begin
    \/ job_end
    \/ deploy_step
    \/ deploy_end

PipelineSpec == PipelineInit /\ [][PipelineNext]_vars


\* ----------------------------------------------------- manual-deploy.sh
\* required_vars of check_env, in order
manual_required_vars ==
    <<"AZURE_VM_IP", "AZURE_VM_USERNAME", "SSH_PRIVATE_KEY_PATH">>

ManualVars == {manual_required_vars[k] : k \in 1..Len(manual_required_vars)}

\* exit status of ssh when it cannot connect
ExitSshError == 255

\* manual-deploy.sh ends with status x
ManualExit(x) == [manual EXCEPT !.pc = "done", !.exit = x]

\* lines 76-83: the usage text when AZURE_VM_IP is empty, else main
usage_guard ==
    /\ manual.pc = "off"
    /\ manual' =
        IF "AZURE_VM_IP" \in manual.set
        THEN [manual EXCEPT !.pc = "main"]
        ELSE [ManualExit(ExitFailure) EXCEPT !.out = Append(@, "usage")]
    /\ UNCHANGED <<scriptVars, server, pipeline, news>>

\* main, up to check_env
manual_main ==
    /\ manual.pc = "main"
    /\ manual' = [manual EXCEPT !.pc = "check_env", !.i = 1,
                                !.out = Append(@, "banner")]
    /\ UNCHANGED <<scriptVars, server, pipeline, news>>

\* one pass of the loop of check_env
check_env ==
    /\ manual.pc = "check_env"
    /\ manual' =
        IF manual.i > Len(manual_required_vars)
        THEN [manual EXCEPT !.pc = "scp_compose",
                            !.out = Append(@, "starting")]
        ELSE IF manual_required_vars[manual.i] \in manual.set
        THEN [manual EXCEPT !.i = @ + 1]
        ELSE [ManualExit(ExitFailure) EXCEPT
                !.out = @ \o <<"not_set", manual_required_vars[manual.i]>>]
    /\ UNCHANGED <<scriptVars, server, pipeline, news>>

\* deploy: scp of docker-compose.prod.yml; set -e ends the script when
\* it fails
scp_compose ==
    \E ok \in BOOLEAN :
        /\ manual.pc = "scp_compose"
        /\ manual' =
            IF ok
            THEN [manual EXCEPT !.pc = "scp_script",
                    !.commands = Append(@, [cmd |-> "scp_compose", ok |-> TRUE])]
            ELSE [ManualExit(ExitFailure) EXCEPT
                    !.commands = Append(@, [cmd |-> "scp_compose", ok |-> FALSE])]
        /\ UNCHANGED <<scriptVars, server, pipeline, news>>

\* deploy: scp of deploy/deploy.sh
scp_script ==
    \E ok \in BOOLEAN :
        /\ manual.pc = "scp_script"
        /\ manual' =
            IF ok
            THEN [manual EXCEPT !.pc = "ssh_connect",
                    !.commands = Append(@, [cmd |-> "scp_script", ok |-> TRUE])]
            ELSE [ManualExit(ExitFailure) EXCEPT
                    !.commands = Append(@, [cmd |-> "scp_script", ok |-> FALSE])]
        /\ UNCHANGED <<scriptVars, server, pipeline, news>>

\* deploy: ssh connects and the remote shell reaches ./deploy.sh
ssh_connect ==
    \E ok \in BOOLEAN :
        /\ manual.pc = "ssh_connect"
        /\ manual' =
            IF ok
            THEN [manual EXCEPT !.pc = "ssh",
                    !.out = Append(@, "executing"),
                    !.commands = Append(@, [cmd |-> "ssh", ok |-> TRUE])]
            ELSE [ManualExit(ExitSshError) EXCEPT
                    !.out = Append(@, "executing"),
                    !.commands = Append(@, [cmd |-> "ssh", ok |-> FALSE])]
        /\ UNCHANGED <<scriptVars, server, pipeline, news>>

\* the remote ./deploy.sh, a step at a time
remote_deploy ==
    /\ manual.pc = "ssh"
    /\ \/ FixedDeploy
       \/ health_check_on(FixedProbes)
       \/ FixedEnd

\* a script without set -e: the lines after ssh always run
ssh_end_unchecked ==
    /\ manual.pc = "ssh"
    /\ pc = "done"
    /\ manual' = [ManualExit(ExitSuccess) EXCEPT
                    !.out = Append(@, "completed")]
    /\ UNCHANGED <<scriptVars, server, pipeline, news>>

\* ssh returns the status of the remote ./deploy.sh; under set -e the
\* lines after it run only when that status is 0
ssh_end ==
    /\ manual.pc = "ssh"
    /\ pc = "done"
    /\ manual' =
        IF exitCode = ExitSuccess
        THEN [ManualExit(ExitSuccess) EXCEPT !.out = Append(@, "completed")]
        ELSE ManualExit(exitCode)
    /\ UNCHANGED <<scriptVars, server, pipeline, news>>

\* the remote host with a fixed behaviour, and the local environment
ManualInit ==
    /\ Start
    /\ env = RequiredVars
    /\ hostCompose = "standalone"
    /\ world \in Worlds
    /\ other = "absent"
    /\ server = NoServer
    /\ pipeline = NoPipeline
    /\ news = NoNews
    /\ manual \in {ManualOff(set) : set \in SUBSET ManualVars}

ManualNext ==
    \/ usage_guard
    \/ manual_main
    \/ check_env
    \/ scp_compose
    \/ scp_script
    \/ ssh_connect
    \/ remote_deploy
    \/ ssh_end

ManualSpec == ManualInit /\ [][ManualNext]_vars


\* ------------------------------------------ the NewsList component
\* fetches one component issues in the model
MaxFetches == 3

\* values of the category and count props
NewsCategories == {"general", "sports"}
NewsCounts == {5, 10}

\* how a fetch ends: data.status is 'success' with articles, the backend
\* reports an error, or fetch or response.json() throws
FetchResults == {"success", "backend_error", "network_error"}

\* the effect, up to the await: setLoading(true), setError(''), fetch(...)
fetchArticles(c, n) ==
    [news EXCEPT
        !.mounted = TRUE,
        !.category = c,
        !.count = n,
        !.loading = TRUE,
        !.error = "",
        !.requests = Append(@, [category |-> c, count |-> n,
                                result |-> "pending"])]

\* the component is rendered for the first time
news_mount ==
    \E c \in NewsCategories, n \in NewsCounts :
        /\ ~news.mounted
        /\ news' = fetchArticles(c, n)
        /\ UNCHANGED <<scriptVars, server, pipeline, manual>>

\* a render with another category or count: the effect runs again; it
\* returns no clean-up, so the fetches in flight go on
news_props ==
    \E c \in NewsCategories, n \in NewsCounts :
        /\ news.mounted
        /\ <<c, n>> # <<news.category, news.count>>
        /\ Len(news.requests) < MaxFetches
        /\ news' = fetchArticles(c, n)
        /\ UNCHANGED <<scriptVars, server, pipeline, manual>>

\* the rest of fetchArticles for request k, once its fetch has ended
news_response ==
    \E k \in 1..Len(news.requests), r \in FetchResults :
        /\ news.requests[k].result = "pending"
        /\ news' =
            [news EXCEPT
                !.requests[k].result = r,
                !.articles = IF r = "success" THEN k ELSE @,
                !.error = IF r = "success" THEN @
                          ELSE IF r = "backend_error"
                          THEN "Failed to fetch news"
                          ELSE "Failed to connect to news service",
                !.loading = FALSE]
        /\ UNCHANGED <<scriptVars, server, pipeline, manual>>

NewsInit ==
    /\ IdleHost
    /\ server = NoServer
    /\ pipeline = NoPipeline
    /\ manual = NoManual
    /\ news = NoNews

NewsNext ==
    \/ news_mount
    \/ news_props
    \/ news_response

NewsSpec == NewsInit /\ [][NewsNext]_vars

\* ---------------------------------------------------------------- claims
Done == pc = "done"

LogHas(r) == \E i \in 1..Len(log) : log[i] = r

ProbeOk(p) == \E i \in 1..Len(probes) : probes[i].probe = p /\ probes[i].ok

ProbeFailed(p) ==
    \E i \in 1..Len(probes) : probes[i].probe = p /\ ~probes[i].ok

\* containers started by this invocation that are running
OwnRunning == {s \in Services : containers[s].by # 0}

\* C1: when pull_images fails the invocation ends non-zero, has issued no
\* container lifecycle command (stop, down, start) at any point, and the
\* running containers are those of before the invocation.
C1_PullFailureTouchesNoContainer ==
    (Done /\ failure = "pull") =>
        /\ exitCode # ExitSuccess
        /\ actions = <<>>
        /\ rollbacks = 0
        /\ containers = prev

\* C2: the polling loop leaves with success only in a pass whose status
\* table shows as many healthy services as services, and 3 services.
C2_AllHealthyOnlyThreeOfThree ==
    (pc = "health_check" /\ loopResult[variant] = "AllHealthy") =>
        /\ healthy_count(health) = total_services(health)
        /\ total_services(health) = 3

\* C3: when the loop reached AllHealthy and the backend probe then fails,
\* the invocation exits non-zero and its log never holds the record
\* "Deployment completed successfully".
C3_BackendProbeFailureIsFailure ==
    (Done /\ failure = "health" /\ ProbeFailed("backend")) =>
        /\ exitCode # ExitSuccess
        /\ ~LogHas("success")

\* C4 as stated: health_check returns success only if all three probes,
\* the database check included, succeeded.
C4_PassNeedsAllThreeProbes ==
    pc = "verified" =>
        /\ ProbeOk("backend")
        /\ ProbeOk("frontend")
        /\ ProbeOk("database")

\* C4 as amended: health_check returns success exactly when the backend
\* and the frontend HTTP probes both succeeded; the database check is run
\* after them and its result never makes health_check fail.
C4_PassIffHttpProbesOk ==
    /\ pc = "verified" =>
          /\ ProbeOk("backend")
          /\ ProbeOk("frontend")
          /\ Len(probes) = Len(ProbeOrder)
    /\ (Done /\ failure = "health") =>
          /\ ProbeFailed("backend") \/ ProbeFailed("frontend")
          /\ ~ProbeFailed("database")

\* a health_check that passed although the database check failed
C4_Witness ==
    /\ pc = "verified"
    /\ variant = 2
    /\ ProbeFailed("database")

\* C5: when health_check fails after AllHealthy, rollback runs before the
\* process exits and no container of the new release is left running.
C5_HealthCheckFailureRollsBack ==
    (Done /\ failure = "health") =>
        /\ rollbacks >= 1
        /\ OwnRunning = {}

\* C6: when the polling loop ends in TimedOut, rollback runs exactly once
\* and the invocation ends non-zero.
C6_TimeoutRollsBackOnce ==
    (Done /\ failure = "timeout") =>
        /\ rollbacks = 1
        /\ exitCode # ExitSuccess

\* C7 as stated: a loop makes at most max_attempts status queries, and
\* one that gives up has made exactly 40 of them with 39 sleeps.
C7_TimeoutAfterFortyQueries ==
    /\ polls <= max_attempts(variant)
    /\ (Done /\ failure = "timeout") => (polls = 40 /\ sleeps = 39)

\* C7 as amended: each polling loop makes at most its own max_attempts
\* status queries (30 in the first variant, 40 in the second); a loop whose
\* success test never holds makes exactly max_attempts queries with
\* max_attempts - 1 sleeps between them and then ends the process
\* non-zero, never earlier and never later.
C7_PollingBoundedByMaxAttempts ==
    /\ polls <= max_attempts(variant)
    /\ pc = "deploy_poll" => (polls = attempt - 1 /\ sleeps = attempt - 1)
    /\ pc = "deploy_sleep" =>
          /\ polls = attempt
          /\ sleeps = attempt - 1
          /\ polls < max_attempts(variant)
    /\ loopResult[variant] = "TimedOut" =>
          /\ Done
          /\ exitCode # ExitSuccess
          /\ polls = max_attempts(variant)
          /\ sleeps = max_attempts(variant) - 1
    /\ pc = "health_check" => loopResult[variant] = "AllHealthy"

\* the second variant's loop has given up after its 40th query
C7_Witness ==
    /\ variant = 2
    /\ loopResult[2] = "TimedOut"
    /\ polls = max_attempts_v2
    /\ sleeps = max_attempts_v2 - 1

\* C8: a pass that sees all 3 services healthy ends the loop in
\* AllHealthy, and health_check is then invoked exactly once in the
\* invocation.
C8_AllHealthyThenOneHealthCheck ==
    /\ pc = "deploy_sleep" => healthy_count(health) # 3
    /\ (pc \in {"verified", "rollback", "done"}
            /\ loopResult[variant] = "AllHealthy") => healthChecks = 1

\* C9: the exit code is 0 if and only if a polling loop reached AllHealthy
\* and its health_check passed; a configuration error, a pull failure, a
\* timeout and a health_check failure each give a non-zero exit code.
C9_ExitZeroIffHealthyAndVerified ==
    Done =>
        /\ exitCode = ExitSuccess <=>
              \E v \in 1..2 :
                  loopResult[v] = "AllHealthy" /\ hcResult[v] = "pass"
        /\ failure \in {"config", "pull", "timeout", "health"} =>
              exitCode # ExitSuccess

\* C10: every failure after container mutation has begun (failed stop,
\* failed start, polling timeout, failed health check) runs rollback
\* before the process exits.
C10_FailureAfterMutationRollsBack ==
    (Done /\ failure \in {"stop", "start", "timeout", "health"}) =>
        rollbacks >= 1

\* the required variables that are unset or empty
Missing == RequiredVars \ env

\* the variables the invocation has reported as not set
Reported == {log[i] : i \in 1..Len(log)} \cap RequiredVars

\* C11 as stated: when one or more required variables are unset or empty,
\* check_env_vars reports every one of them, not only the first in list
\* order.
C11_ReportsEveryMissing ==
    failure = "config" => Reported = Missing

\* C11, amended: when one or more required variables are unset or empty,
\* check_env_vars reports exactly one variable, the first of required_vars
\* that is missing, and the invocation ends with a non-zero status.
C11_ReportsFirstMissingOnly ==
    /\ failure = "config" =>
        /\ Done
        /\ exitCode = ExitFailure
        /\ \E i \in 1..Len(required_vars) :
            /\ required_vars[i] \in Missing
            /\ \A j \in 1..(i - 1) : required_vars[j] \in env
            /\ Reported = {required_vars[i]}
    /\ (Done /\ Missing # {} /\ failure # "docker") => failure = "config"

\* two variables are missing, not the first of the list, and one is reported
C11_Witness ==
    /\ failure = "config"
    /\ Missing = {"MONGO_ROOT_PASSWORD", "REACT_APP_NEWS_API_KEY"}
    /\ Reported = {"MONGO_ROOT_PASSWORD"}

\* what an invocation began with: the images of the release that was
\* running, and no backup record written or removed
Untouched ==
    /\ containers = prev
    /\ actions = <<>>
    /\ images = (IF Running(prev) = {} THEN {} ELSE ReleaseImages(PrevTag))
    /\ newBackups = {}
    /\ pruned = {}
    /\ ~pkgInstalled

\* C12: if any required variable is unset or empty, the invocation exits
\* non-zero before any state is mutated: no backup is taken, no image is
\* pulled, no package is installed, no container is stopped or started.
C12_MissingVariableMutatesNothing ==
    Missing # {} =>
        /\ Untouched
        /\ exitCode # ExitSuccess
        /\ pc \in {"main", "check_docker", "check_env_vars", "done"}
        /\ variant = 1

\* an invocation with a missing variable has ended, on a host with old
\* backup records and a release running
C12_Witness ==
    /\ Done
    /\ failure = "config"
    /\ Missing = {"JWT_SECRET"}
    /\ Running(prev) = Services
    /\ backups # {}
    /\ exitCode = ExitFailure

\* C13: when the MongoDB container is not running at the time of
\* backup_database, the backup stage creates no backup record, raises no
\* error, and the deployment continues to the image pull.
C13_StoreNotRunningSkipsBackup ==
    [][(pc = "backup_database" /\ containers["mongodb"].tag = "none") =>
        /\ pc' = "pull_images"
        /\ backups' = backups
        /\ newBackups' = newBackups
        /\ exitCode' = NoExit
        /\ failure' = "none"
        /\ rollbacks' = rollbacks
        /\ dump' = "none"]_vars

\* the backup stage has just been skipped on a host that has a backup
\* directory and no store running
C13_Witness ==
    /\ pc = "pull_images"
    /\ containers["mongodb"].tag = "none"
    /\ backups # {}
    /\ newBackups = {}
    /\ log # <<>>
    /\ log[Len(log)] = "backup_skipped"

\* C14 as stated: no failure inside the backup stage (failed dump, failed
\* copy out of the container) aborts the deployment or triggers rollback:
\* after backup_database, whatever its outcome, comes pull_images.
C14_BackupFailureNeverAborts ==
    [][pc = "backup_database" =>
        /\ pc' = "pull_images"
        /\ exitCode' = NoExit
        /\ rollbacks' = rollbacks]_vars

\* C15 as stated: backup_database adds a record only when the store is
\* running, the dump succeeded, the dump contains data and the copy
\* succeeded; an empty dump yields no record and only a warning; no
\* invocation adds more than one record.
C15_RecordOnlyForGoodDump ==
    [][pc = "backup_database" =>
        /\ backups' # backups =>
            (containers["mongodb"].tag # "none" /\ dump' = "ok")
        /\ dump' = "empty" =>
            (backups' = backups /\ log' = Append(log, "backup_warning"))
        /\ Cardinality(newBackups') <= 1]_vars

\* C16: after any successful deployment at most 5 backup records remain,
\* those with the greatest timestamps among the records that existed
\* before the pruning; when more than 5 existed exactly 5 remain, and
\* every removed record is older than every retained one.
C16_PruneKeepsFiveNewest ==
    [][(pc = "verified" /\ (pc' = "main" \/ exitCode' = ExitSuccess)) =>
        /\ backups' \subseteq backups
        /\ Cardinality(backups') =
              (IF Cardinality(backups) > 5 THEN 5 ELSE Cardinality(backups))
        /\ \A r \in backups \ backups' : \A k \in backups' : r < k
        /\ pruned' = pruned \cup (backups \ backups')]_vars

\* a successful invocation that found more than 5 records and removed
\* the oldest of them
C16_Witness ==
    /\ Done
    /\ exitCode = ExitSuccess
    /\ Cardinality(backups) = 5
    /\ Cardinality(pruned) >= 2
    /\ 1 \in pruned
    /\ newBackups \subseteq backups

\* C17 as stated: an invocation that does not end in success removes no
\* backup record; pruning runs only after health_check has passed.
C17_FailedInvocationRemovesNothing ==
    /\ (Done /\ exitCode # ExitSuccess) => pruned = {}
    /\ pruned # {} => \E v \in 1..2 : hcResult[v] = "pass"

\* the first of two invocations in a row has succeeded and the second
\* is in its first main
SecondAfterSuccess ==
    /\ run = 2
    /\ first.exitCode = ExitSuccess
    /\ variant = 1

C19_TwiceEndsLikeOnce ==
    (run = 2 /\ Done) =>
        /\ Tags(containers) = first.tags
        /\ exitCode = first.exitCode

\* C20 as stated: with all required variables set, a previous release
\* running with data in the store, all 3 services healthy and all external
\* probes succeeding within the first 5 polls, the invocation exits 0,
\* adds exactly 1 backup record and runs rollback 0 times.  (Here every
\* command succeeds and the services are healthy at the first poll.)
C20_HealthyDeploymentAddsOneBackup ==
    (/\ run = 1
     /\ Done
     /\ Fault = "none"
     /\ env = RequiredVars
     /\ hostCompose = "standalone"
     /\ prev = Release(PrevTag, 0)) =>
        /\ exitCode = ExitSuccess
        /\ Cardinality(newBackups) = 1
        /\ rollbacks = 0

\* the stage a position of the script belongs to: 1 Validate, 2 Backup,
\* 3 Pull, 4 Orchestrate (stop, prune, start, poll), 5 Verify, 6 the end
Stage(p) ==
    IF p \in {"main", "check_docker", "check_docker_compose",
               "check_env_vars"} THEN 1
    ELSE IF p = "backup_database" THEN 2
    ELSE IF p = "pull_images" THEN 3
    ELSE IF p \in {"deploy_stop", "deploy_prune", "deploy_start",
                    "deploy_poll", "deploy_sleep"} THEN 4
    ELSE IF p \in {"health_check", "verified"} THEN 5
    ELSE 6

\* C21 as stated: within one invocation the stages run strictly in the
\* order Validate, Backup, Pull, Orchestrate, Verify: a stage starts only
\* after the preceding stage has finished (no step goes back to an
\* earlier stage or skips one), and no stage starts once a fatal stage
\* has failed.
C21_StagesRunInOrder ==
    [][/\ Stage(pc') >= Stage(pc)
       /\ Stage(pc') < 6 => Stage(pc') <= Stage(pc) + 1
       /\ failure' # "none" => Stage(pc') = 6]_vars

C23_RollbackLeavesNothingRunning ==
    /\ (rollbacks > 0 /\ LogHas("manual_intervention")) =>
        /\ Done
        /\ exitCode # ExitSuccess
        /\ \A s \in Services : containers[s].tag = "none"
    /\ rollbacks > 0 =>
        /\ actions[Len(actions)] = "down"
        /\ \A s \in Services :
            containers[s].tag # "none" => containers[s].by # 0

\* a rollback has run to its end after a release had replaced a
\* previous one
C23_Witness ==
    /\ Done
    /\ rollbacks = 1
    /\ LogHas("manual_intervention")
    /\ "rollback_tail50" \in diag
    /\ prev = Release(PrevTag, 0)
    /\ containers = NoContainers

\* C24 as stated: the pruning of unused images between Stopping and
\* Starting is best-effort: a failure of the image prune does not prevent
\* the new release from being started and does not abort the deployment.
C24_PruneFailureDoesNotAbort ==
    [][pc = "deploy_prune" =>
        (pc' = "deploy_start" /\ exitCode' = NoExit)]_vars

\* the log tail of service s, as a diagnostic capture
ServiceTail(s) ==
    IF s = "mongodb" THEN "mongodb_tail20"
    ELSE IF s = "backend" THEN "backend_tail20"
    ELSE "frontend_tail20"

\* a pass of the polling loop that queries the status and does not end
\* the loop with success
FailedPoll ==
    /\ pc = "deploy_poll"
    /\ polls' = polls + 1
    /\ pc' # "health_check"

\* C25 as stated: in every poll in which any one of the three services is
\* reported unhealthy and AllHealthy was not reached, the log tail of
\* that service is captured; on the final attempt before TimedOut the
\* logs and the per-service status are captured before the process exits.
C25_UnhealthyServiceLogsCaptured ==
    [][FailedPoll =>
        /\ \A s \in Services :
            health'[s] = "unhealthy" => ServiceTail(s) \in diag'
        /\ loopResult'[variant] = "TimedOut" =>
            (/\ \E d \in {"all_logs", "all_tail50"} : d \in diag'
             /\ "ps_status" \in diag')]_vars

\* C25, amended: the second variant captures the log tail of the database
\* service, and of no other service, in every poll in which the database
\* is reported unhealthy and AllHealthy was not reached; on its final
\* attempt it captures the last 50 log lines of all services and the
\* per-service status.  The first variant captures no service's tail, and
\* on its final attempt the logs of all services without the status.
C25_OnlyStoreLogsCaptured ==
    [][FailedPoll =>
        /\ diag \subseteq diag'
        /\ diag' \ diag \subseteq
              {"mongodb_tail20", "all_logs", "all_tail50", "ps_status"}
        /\ (variant = 2 /\ health'["mongodb"] = "unhealthy") =>
              "mongodb_tail20" \in diag'
        /\ "mongodb_tail20" \in diag' \ diag =>
              (variant = 2 /\ health'["mongodb"] = "unhealthy")
        /\ (variant = 2 /\ loopResult'[variant] = "TimedOut") =>
              (diag' \ diag) \ {"mongodb_tail20"} \subseteq
                  {"all_tail50", "ps_status"}
              /\ {"all_tail50", "ps_status"} \subseteq diag'
        /\ (variant = 1 /\ loopResult'[variant] = "TimedOut") =>
              (diag' \ diag = {"all_logs"} /\ "ps_status" \notin diag')
        /\ loopResult'[variant] # "TimedOut" =>
              diag' \ diag \subseteq {"mongodb_tail20"}]_vars

\* the second variant has met an unhealthy backend next to an unhealthy
\* database and has captured the database's tail only
C25_Witness ==
    /\ pc = "deploy_sleep"
    /\ variant = 2
    /\ health["mongodb"] = "unhealthy"
    /\ health["backend"] = "unhealthy"
    /\ diag = {"mongodb_tail20"}

\* C26: the deploy process has no internal locking, so with two
\* invocations running concurrently against the same host there is a
\* reachable interleaving in which one invocation's Stopping step tears
\* down containers the other invocation started, and the other still
\* proceeds (or has already reported success) although fewer than 3
\* services are running.  The interleaving is C26_Witness; the formula
\* says that nothing holds the Stopping step of the concurrent invocation
\* back: whenever it runs it takes down every container of the project,
\* whoever started it, the invocation whose containers they were is
\* neither ended nor sent into rollback by it, and a success reported
\* with fewer than 3 services running is met exactly after such a step.
C26_NoLockAgainstConcurrentStop ==
    [][/\ (other = "deploy_stop" /\ other' # other) =>
            /\ \A s \in Services : containers'[s].tag = "none"
            /\ pc' = pc
            /\ exitCode' = exitCode
            /\ rollbacks' = rollbacks
       /\ (exitCode' = ExitSuccess
            /\ \E s \in Services : containers'[s].tag = "none") =>
            other' = "deploy_start"]_vars

\* the invocation has reported success, the concurrent invocation's
\* Stopping step has taken its three containers down, nothing is running
C26_Witness ==
    /\ Done
    /\ exitCode = ExitSuccess
    /\ hcResult[2] = "pass"
    /\ LogHas("completed")
    /\ rollbacks = 0
    /\ actions[Len(actions)] = "up"
    /\ other = "deploy_start"
    /\ containers = NoContainers

\* C27 as stated: if the process is cancelled externally while it is in
\* the polling loop (between two polls), no cleanup and no rollback run,
\* the containers started by the Starting step stay in whatever state
\* they were in, and neither a success nor a completion record is written
\* to the deployment log.
C27_CancelledLeavesNoRecord ==
    [][(failure' = "cancelled" /\ failure = "none") =>
        /\ rollbacks' = 0
        /\ containers' = containers
        /\ actions' = actions
        /\ backups' = backups
        /\ ~\E i \in 1..Len(log') : log'[i] \in {"success", "completed"}]_vars

\* C28: the backup stage leaves the container runtime's lifecycle state
\* unchanged: the set of running containers and the set of images are
\* the same after backup_database as before it, for every outcome of the
\* backup (record created, no-op, warning, and the failure that ends the
\* first variant).
C28_BackupTouchesNoContainer ==
    [][pc = "backup_database" =>
        /\ containers' = containers
        /\ images' = images
        /\ actions' = actions
        /\ pkgInstalled' = pkgInstalled]_vars

\* a backup record has just been created next to three running services
C28_Witness ==
    /\ pc = "pull_images"
    /\ dump = "ok"
    /\ newBackups # {}
    /\ containers = prev
    /\ \A s \in Services : containers[s].tag # "none"
    /\ images = ReleaseImages(PrevTag)

\* the tag a release is to use: the supplied one, "latest" when none is
ExpectedTag == IF IMAGE_TAG = "" THEN "latest" ELSE IMAGE_TAG

\* C29: the image tag used for the backend and frontend images of a
\* release is the supplied IMAGE_TAG when one is supplied and "latest"
\* otherwise, and both images of one release always use the same tag.
C29_ReleaseUsesSuppliedTagOrLatest ==
    /\ \A s \in AppImages :
        containers[s].by \in {1, 2} => containers[s].tag = ExpectedTag
    /\ images \ (IF \E s \in Services : prev[s].tag # "none"
                  THEN {<<i, PrevTag>> : i \in AppImages} ELSE {})
          \subseteq {<<i, ExpectedTag>> : i \in AppImages}
    /\ Stage(pc) \in {4, 5} =>
          {<<i, ExpectedTag>> : i \in AppImages} \subseteq images
    /\ (containers["backend"].by \in {1, 2}
         /\ containers["frontend"].by \in {1, 2}) =>
          containers["backend"].tag = containers["frontend"].tag

\* a release with a supplied tag runs after a successful invocation
C29_Witness ==
    /\ Done
    /\ exitCode = ExitSuccess
    /\ IMAGE_TAG = "sha1"
    /\ containers["backend"] = [tag |-> "sha1", by |-> 2]
    /\ containers["frontend"] = [tag |-> "sha1", by |-> 2]
    /\ {<<"backend", "sha1">>, <<"frontend", "sha1">>} \subseteq images

\* C30: GET /api/health answers HTTP 200 with a JSON body that has a
\* status field in every state of the server, the states in which the
\* MongoDB connection failed or is not yet established included, and the
\* answer does not depend on the state of the database connection.
C30_HealthAnswersWhateverDatabase ==
    /\ server.askedIn # "" =>
        /\ server.response.code = 200
        /\ server.response.status # ""
        /\ \A d \in DbStates :
            server.response =
                HealthAnswer(d, server.response.uptime, server.NODE_ENV)
    /\ server.listening =>
        \A d \in DbStates :
            HealthAnswer(d, server.uptime, server.NODE_ENV) =
                HealthAnswer(server.db, server.uptime, server.NODE_ENV)

\* the endpoint answered 200 while the connection to the store had failed
C30_Witness ==
    /\ server.db = "failed"
    /\ server.askedIn = "failed"
    /\ server.response.code = 200
    /\ server.response.status = "healthy"

\* how often record r is in the log l
Occurrences(l, r) == Cardinality({i \in 1..Len(l) : l[i] = r})

\* C31: the deployment log is append-only and each invocation appends a
\* "Deployment started" record before any check or stage runs; a
\* "Deployment completed" record is appended only in an invocation whose
\* health_check passed, and always after that invocation's "Deployment
\* started" record.
C31_LogAppendOnlyStartedFirst ==
    [][/\ Len(log') >= Len(log)
       /\ SubSeq(log', 1, Len(log)) = log
       /\ Len(log') >= 1
       /\ log'[1] = "started"
       /\ pc = "main" =>
            /\ log' = Append(log, "started")
            /\ pc' = "check_docker"
            /\ UNCHANGED <<containers, images, backups, actions,
                           healthChecks, pkgInstalled, DOCKER_COMPOSE_CMD>>
       /\ pc # "main" => Occurrences(log', "started") =
                            Occurrences(log, "started")
       /\ Occurrences(log', "completed") # Occurrences(log, "completed") =>
            /\ pc = "verified"
            /\ hcResult[variant] = "pass"
            /\ log' = log \o <<"success", "completed">>
            /\ Occurrences(log, "started") = variant
            /\ Occurrences(log, "completed") = variant - 1]_vars

\* the completed record has been appended after the started record
C31_Witness ==
    /\ Done
    /\ exitCode = ExitSuccess
    /\ log[1] = "started"
    /\ log[Len(log)] = "completed"
    /\ hcResult[2] = "pass"

\* a job that has been started
Started == {"running", "success", "failure"}

\* C32: the deploy job runs only when the ref is the main branch and only
\* after build-images and security-scan have both succeeded, and
\* build-images runs only after frontend-checks and backend-checks have
\* both succeeded; a pull request to main or a push to develop never
\* reaches build-images or deploy.
C32_DeployOnlyFromMainAfterNeeds ==
    /\ pipeline.jobs["deploy"] \in Started =>
        /\ pipeline.event = "push_main"
        /\ pipeline.jobs["build-images"] = "success"
        /\ pipeline.jobs["security-scan"] = "success"
    /\ pipeline.jobs["build-images"] \in Started =>
        /\ pipeline.event = "push_main"
        /\ pipeline.jobs["frontend-checks"] = "success"
        /\ pipeline.jobs["backend-checks"] = "success"
    /\ pipeline.event \in {"pull_request_main", "push_develop"} =>
        /\ pipeline.jobs["build-images"] \notin Started
        /\ pipeline.jobs["deploy"] \notin Started

\* a push to main has gone through build-images and deploy
C32_Witness ==
    /\ pipeline.event = "push_main"
    /\ pipeline.jobs["build-images"] = "success"
    /\ pipeline.jobs["deploy"] = "success"

\* C36 as stated: the "Notify deployment status" step reports "Deployment
\* failed" and fails whenever the "Deploy to Azure VM" step or the
\* "Health Check After Deployment" step failed, and reports "Deployment
\* successful" only when both succeeded.
C36_NotifyReportsFailure ==
    pipeline.steps[6] # "pending" =>
        /\ (pipeline.steps[4] = "failure" \/ pipeline.steps[5] = "failure")
            => (pipeline.notice = "failed" /\ pipeline.steps[6] = "failure")
        /\ pipeline.notice = "successful" =>
            (pipeline.steps[4] = "success" /\ pipeline.steps[5] = "success")

\* C33 as stated: one invocation of deploy.sh performs at most one
\* deployment attempt: the main sequence runs once, so the Stopping and
\* Starting steps are each executed at most once per invocation, and a
\* release that has passed health_check is not stopped again by the same
\* invocation.
C33_OneAttemptPerInvocation ==
    /\ Occurrences(log, "started") <= 1
    /\ healthChecks <= 1
    /\ Occurrences(actions, "up") <= 1
    /\ rollbacks = 0 =>
        /\ Occurrences(actions, "down") <= 1
        /\ hcResult[1] = "pass" =>
            \A i, j \in 1..Len(actions) :
                i < j => ~(actions[i] = "up" /\ actions[j] = "down")

\* C34: in the rollback handler the teardown of the release's containers
\* strictly precedes the capture of the last 50 log lines: when the
\* diagnostic log tail is read, every container of the failed release has
\* already been stopped and removed.
C34_TeardownBeforeLogTail ==
    [][("rollback_tail50" \in diag' /\ "rollback_tail50" \notin diag) =>
        /\ pc = "rollback"
        /\ Len(actions') = Len(actions) + 1
        /\ actions'[Len(actions')] = "down"
        /\ \A s \in Services : containers'[s].tag = "none"]_vars

\* the handler has read the log tail after taking down a running release
C34_Witness ==
    /\ Done
    /\ rollbacks = 1
    /\ "rollback_tail50" \in diag
    /\ failure = "cleanup"
    /\ actions[Len(actions)] = "down"
    /\ containers = NoContainers

\* the error record health_check writes for an HTTP probe
FailedRecord(p) ==
    IF p = "backend" THEN "backend_failed" ELSE "frontend_failed"

\* C35: health_check probes in the fixed order backend, frontend, database
\* and stops at the first failing HTTP probe: when the backend probe fails
\* the frontend and database probes are not executed, and the error
\* message names the probe that failed.
C35_ProbesInOrderStopAtFirstFailure ==
    /\ Len(probes) <= Len(ProbeOrder)
    /\ \A i \in 1..Len(probes) :
        /\ probes[i].probe = ProbeOrder[i]
        /\ (~probes[i].ok /\ probes[i].probe \in {"backend", "frontend"}) =>
            /\ i = Len(probes)
            /\ Done
            /\ hcResult[variant] = "fail"
            /\ Len(log) >= 2
            /\ log[Len(log) - 1] = FailedRecord(probes[i].probe)
            /\ log[Len(log)] = "hc_failed"
    /\ (hcResult[variant] = "fail") =>
        /\ probes # <<>>
        /\ ~probes[Len(probes)].ok
        /\ probes[Len(probes)].probe \in {"backend", "frontend"}
    /\ (hcResult[variant] = "pass" /\ pc # "main") =>
        /\ Len(probes) = Len(ProbeOrder)
        /\ probes[1].ok
        /\ probes[2].ok

\* the backend probe failed and was the only probe run
C35_Witness ==
    /\ Done
    /\ healthChecks >= 1
    /\ probes = <<[probe |-> "backend", ok |-> FALSE]>>
    /\ log[Len(log) - 1] = "backend_failed"
    /\ exitCode = ExitFailure

\* command c of manual-deploy.sh has been issued and has succeeded
ManualDid(c) ==
    \E k \in 1..Len(manual.commands) :
        manual.commands[k] = [cmd |-> c, ok |-> TRUE]

\* manual-deploy.sh has printed record r
ManualPrinted(r) == \E k \in 1..Len(manual.out) : manual.out[k] = r

\* C37: manual-deploy.sh runs the remote deploy.sh only when AZURE_VM_IP,
\* AZURE_VM_USERNAME and SSH_PRIVATE_KEY_PATH are all non-empty and both
\* file copies succeeded, and prints "Deployment completed!" only if the
\* remote deploy.sh exited with code 0; with any of the three variables
\* missing it exits 1 without copying or connecting.
C37_ManualDeployGuards ==
    /\ (log # <<>> \/ \E k \in 1..Len(manual.commands) :
                        manual.commands[k].cmd = "ssh") =>
        /\ manual.set =
            {"AZURE_VM_IP", "AZURE_VM_USERNAME", "SSH_PRIVATE_KEY_PATH"}
        /\ Len(manual.commands) = 3
        /\ manual.commands[1] = [cmd |-> "scp_compose", ok |-> TRUE]
        /\ manual.commands[2] = [cmd |-> "scp_script", ok |-> TRUE]
        /\ manual.commands[3].cmd = "ssh"
    /\ ManualPrinted("completed") =>
        /\ pc = "done"
        /\ exitCode = ExitSuccess
        /\ manual.exit = ExitSuccess
    /\ manual.set #
            {"AZURE_VM_IP", "AZURE_VM_USERNAME", "SSH_PRIVATE_KEY_PATH"} =>
        /\ manual.commands = <<>>
        /\ log = <<>>
        /\ manual.pc = "done" => manual.exit = ExitFailure
        /\ manual.pc \in {"off", "main", "check_env", "done"}

\* the remote deploy.sh has failed and no completion line was printed
C37_Witness ==
    /\ manual.pc = "done"
    /\ ManualDid("ssh")
    /\ exitCode = ExitFailure
    /\ manual.exit = ExitFailure
    /\ ~ManualPrinted("completed")

\* C38 as stated: when the category or count prop of NewsList changes
\* while an earlier fetch is still in flight, then after all in-flight
\* fetches have completed the displayed articles are those of the most
\* recent (category, count) request, whatever the order in which the
\* responses arrive, and loading is false.  (Stated for fetches that all
\* returned articles.)
C38_LatestRequestWins ==
    (/\ Len(news.requests) >= 2
     /\ \A k \in 1..Len(news.requests) :
            news.requests[k].result = "success") =>
        /\ ~news.loading
        /\ news.articles # 0
        /\ news.requests[news.articles].category = news.category
        /\ news.requests[news.articles].count = news.count

====
